---- MODULE Spec2Model ----
(***************************************************************************)
(* Coupon validate-and-consume engine (CouponService.ValidateCoupon) with  *)
(* the usage ledger (UsageRepo) on PostgreSQL under SERIALIZABLE           *)
(* isolation.                                                              *)
(*                                                                         *)
(* Spec      : NumCalls concurrent ValidateCoupon calls on one service and *)
(*             one database; the discount worker pool of a call is taken   *)
(*             in one step (EvalSummary).                                  *)
(* SpecOne   : one call in full detail: the worker goroutines, the         *)
(*             producer and the collector of the discount evaluation step  *)
(*             by step over the unbuffered channels inCh and outCh.        *)
(* FairSpecOne : SpecOne with the Go scheduler's fairness.                 *)
(*                                                                         *)
(* Money is float64 in the program.  The model keeps amounts as integers   *)
(* in hundredths and rounds the result of every float64 addition and       *)
(* multiplication to Precision significant bits, ties to even, as IEEE 754 *)
(* does with 53 bits.                                                      *)
(***************************************************************************)
EXTENDS Integers, Sequences, FiniteSets, TLC

\* ------------------------------------------------------------------ bounds
\* number of concurrent ValidateCoupon calls in Spec
NumCalls == 2
\* instants are 0..MaxNow
MaxNow == 3
\* longest cart of SpecOne
MaxCart == 2
\* significant bits a float64 result keeps in the model
Precision == 3

Calls == 1..NumCalls
Times == 0..MaxNow
Users == {"u1", "u2"}

\* ------------------------------------------------------- program constants
\* workerCount := 4
FixedCap == 4
\* sql.ErrNoRows: the pair has no coupon_usage row
NoRow == -1
\* a nil *time.Time (valid_from / valid_to is NULL)
NilTime == -1
\* no transaction holds the pair's row lock
NoHolder == 0

\* a nil *models.CouponMeta
NilMeta == [ID |-> "nil"]

\* models.CouponMeta (models.Coupon plus the two applicability lists)
Meta(code, expiry, usageType, minOrder, from, to, dType, dValue, maxUse, target, items, cats) ==
    [ID |-> code, CouponCode |-> code, ExpiryDate |-> expiry, UsageType |-> usageType,
     MinOrderValue |-> minOrder, ValidFrom |-> from, ValidTo |-> to,
     DiscountType |-> dType, DiscountValue |-> dValue, MaxUsagePerUser |-> maxUse,
     TargetType |-> target, ApplicableItems |-> items, ApplicableCategories |-> cats]

\* models.CartItem
CartItem(id, cat, price, qty) == [ID |-> id, Category |-> cat, Price |-> price, Qty |-> qty]

\* models.ValidationRequest
Request(user, code, cart, total) ==
    [UserID |-> user, CouponCode |-> code, CartItems |-> cart, OrderTotal |-> total]

\* models.ValidationResponse together with the returned error
Response(valid, discount, msg, err) ==
    [IsValid |-> valid, Discount |-> discount, Message |-> msg, Err |-> err]

\* the call has not returned
NoResp == [IsValid |-> FALSE, Discount |-> 0, Message |-> "", Err |-> << >>]

\* a nil error
NilErr == << >>
\* fmt.Errorf("op: %w", err)
Wrap(op, err) == <<op>> \o err
\* the innermost error
Cause(err) == err[Len(err)]

VARIABLES
    coupons,        \* table coupons (with its item and category tables): code -> CouponMeta or NilMeta
    usage,          \* table coupon_usage, committed: <<couponID, userID>> -> usage_count or NoRow
    rowLock,        \* <<couponID, userID>> -> the call whose transaction holds the row (FOR UPDATE, or its uncommitted INSERT)
    cache,          \* s.cache: code -> CouponMeta or NilMeta
    pc,             \* position of each call in ValidateCoupon
    req,            \* the call's request
    now,            \* the instant the call reads at time.Now()
    ctxDone,        \* the call's context is done (deadline fired, caller cancelled, or cancel() ran)
    couponMeta,     \* local couponMeta
    totalItemsDiscount, \* local totalItemsDiscount, in hundredths
    totalDiscount,  \* local totalDiscount, in hundredths
    tx,             \* the call's transaction: "none", "open", "committed", "rolledback"
    snap,           \* the transaction's snapshot of the pair's row, taken by its first statement
    txRow,          \* the pair's row as the transaction sees it (its own writes included)
    usageCount,     \* local usageCount
    resp,           \* what the call returned
    usage0,         \* the committed coupon_usage table when the calls began
    prodIdx,        \* producer goroutine: index of the next cart item (0-based)
    inClosed,       \* close(inCh) has run
    wpc,            \* worker goroutine -> "off", "recv", "send", "done"
    wval,           \* worker goroutine -> the discount it is sending
    collIdx,        \* collector goroutine: iterations of its loop done
    collectDone,    \* close(collectDone) has run
    applicable,     \* GetApplicableCoupons: the codes appended to applicable
    scanned         \* GetApplicableCoupons: coupon row -> how its loop iteration ended, and the usageCount it read

dbVars == <<coupons, usage, usage0, rowLock, cache>>
callVars == <<pc, req, now, ctxDone, couponMeta, totalItemsDiscount, totalDiscount,
              tx, snap, txRow, usageCount, resp>>
pipeVars == <<prodIdx, inClosed, wpc, wval, collIdx, collectDone>>
listVars == <<applicable, scanned>>
vars == <<coupons, usage, usage0, rowLock, cache, pc, req, now, ctxDone, couponMeta,
          totalItemsDiscount, totalDiscount, tx, snap, txRow, usageCount, resp,
          prodIdx, inClosed, wpc, wval, collIdx, collectDone, applicable, scanned>>

Workers == 1..FixedCap

\* a usage record found by coupon alone (WHERE coupon_id = $1)
KeyByCoupon(c) == <<req[c].CouponCode, "u1">>

\* the (couponId, userId) key of a call's usage record
Key(c) == <<req[c].CouponCode, req[c].UserID>>

\* ------------------------------------------------------------ pure helpers
RECURSIVE Pow2(_)
Pow2(n) == IF n = 0 THEN 1 ELSE 2 * Pow2(n - 1)

\* the exponent of the last place a float of value x keeps
RECURSIVE Ulp(_, _)
Ulp(x, e) == IF x < Pow2(Precision + e) THEN e ELSE Ulp(x, e + 1)

\* float64 rounding of the exact result x >= 0: round to nearest, ties to even
Fl(x) ==
    LET e == Ulp(x, 0)
        q == x \div Pow2(e)
        r == x % Pow2(e)
        up == 2 * r > Pow2(e) \/ (2 * r = Pow2(e) /\ q % 2 = 1)
    IN  IF e = 0 THEN x ELSE (IF up THEN q + 1 ELSE q) * Pow2(e)

\* float64 a + b and a * b
FAdd(a, b) == Fl(a + b)
FMul(a, b) == Fl(a * b)

\* the window looked at before the minimum order value
StaticCheckWindowFirst(m, t, orderTotal) ==
    IF m.ExpiryDate < t THEN "coupon_expired"
    ELSE IF /\ m.ValidFrom # NilTime
            /\ m.ValidTo # NilTime
            /\ (t < m.ValidFrom \/ t > m.ValidTo)
         THEN "not_in_valid_window"
    ELSE IF m.MinOrderValue > orderTotal THEN "min_order_value_not_met"
    ELSE "ok"

\* the expiry compared with !ExpiryDate.After(now): the boundary instant expired
StaticCheckExpiredAtBoundary(m, t, orderTotal) ==
    IF m.ExpiryDate <= t THEN "coupon_expired"
    ELSE IF m.MinOrderValue > orderTotal THEN "min_order_value_not_met"
    ELSE IF /\ m.ValidFrom # NilTime
            /\ m.ValidTo # NilTime
            /\ (t < m.ValidFrom \/ t > m.ValidTo)
         THEN "not_in_valid_window"
    ELSE "ok"

\* the window compared with !now.After(from) and !now.Before(to): its two ends are outside
StaticCheckWindowExclusive(m, t, orderTotal) ==
    IF m.ExpiryDate < t THEN "coupon_expired"
    ELSE IF m.MinOrderValue > orderTotal THEN "min_order_value_not_met"
    ELSE IF /\ m.ValidFrom # NilTime
            /\ m.ValidTo # NilTime
            /\ (t <= m.ValidFrom \/ t >= m.ValidTo)
         THEN "not_in_valid_window"
    ELSE "ok"

\* 2) Basic validations: the first check that fires, or "ok"
StaticCheck(m, t, orderTotal) ==
    IF m.ExpiryDate < t THEN "coupon_expired"
    ELSE IF m.MinOrderValue > orderTotal THEN "min_order_value_not_met"
    ELSE IF /\ m.ValidFrom # NilTime
            /\ m.ValidTo # NilTime
            /\ (t < m.ValidFrom \/ t > m.ValidTo)
         THEN "not_in_valid_window"
    ELSE "ok"

\* workerCount for a cart of n items
WorkerCount(n) == IF n > 0 /\ n < FixedCap THEN n ELSE FixedCap

\* a worker body that takes every item as applying
ItemDiscountAlwaysApplies(m, it) ==
    IF m.TargetType = "inventory" /\ m.DiscountType = "percentage"
    THEN FMul(FMul(it.Qty, it.Price), m.DiscountValue)
    ELSE 0

\* the worker body: the discount contribution of one item, in hundredths
ItemDiscount(m, it) ==
    LET applies == \/ (m.ApplicableItems = {} /\ m.ApplicableCategories = {})
                   \/ it.ID \in m.ApplicableItems
                   \/ it.Category \in m.ApplicableCategories
    IN  IF applies /\ m.TargetType = "inventory" /\ m.DiscountType = "percentage"
        THEN FMul(FMul(it.Qty, it.Price), m.DiscountValue)
        ELSE 0

\* the contributions of a cart, item by item
Contributions(m, cart) == [i \in 1..Len(cart) |-> ItemDiscount(m, cart[i])]

\* the final discount left at totalItemsDiscount whatever the coupon's target and type
AggregateItemsOnly(m, itemsTotal, orderTotal) == itemsTotal

\* choose final discount, in hundredths
Aggregate(m, itemsTotal, orderTotal) ==
    IF m.TargetType = "charges"
    THEN IF m.DiscountType = "percentage" THEN FMul(orderTotal, m.DiscountValue)
         ELSE m.DiscountValue * 100
    ELSE IF m.TargetType = "inventory" /\ m.DiscountType = "flat"
         THEN m.DiscountValue * 100
         ELSE itemsTotal

\* the usage constraints compared with > in place of >=
UsageCheckOffByOne(m, count) ==
    IF m.UsageType = "one_time" /\ count > 1 THEN "coupon_already_used"
    ELSE IF m.MaxUsagePerUser > 0 /\ count > m.MaxUsagePerUser THEN "usage_limit_reached"
    ELSE "ok"

\* the usage constraints with maxUsagePerUser = 0 taken as a limit of no use at all
UsageCheckZeroIsLimit(m, count) ==
    IF m.UsageType = "one_time" /\ count >= 1 THEN "coupon_already_used"
    ELSE IF count >= m.MaxUsagePerUser THEN "usage_limit_reached"
    ELSE "ok"

\* the usage constraints with the per-user limit looked at before one_time
UsageCheckLimitFirst(m, count) ==
    IF m.MaxUsagePerUser > 0 /\ count >= m.MaxUsagePerUser THEN "usage_limit_reached"
    ELSE IF m.UsageType = "one_time" /\ count >= 1 THEN "coupon_already_used"
    ELSE "ok"

\* Check user-based usage constraints: the rejection, or "ok"
UsageCheck(m, count) ==
    IF m.UsageType = "one_time" /\ count >= 1 THEN "coupon_already_used"
    ELSE IF m.MaxUsagePerUser > 0 /\ count >= m.MaxUsagePerUser THEN "usage_limit_reached"
    ELSE "ok"

\* ------------------------------------------------------------- transaction
\* an exit without the deferred rollback: the transaction stays open
RollbackMissing(c) ==
    UNCHANGED <<tx, rowLock, txRow, snap>>

\* the deferred tx.Rollback(): the transaction's writes are dropped and its row lock released
Rollback(c) ==
    /\ tx' = [tx EXCEPT ![c] = "rolledback"]
    /\ rowLock' = [p \in DOMAIN rowLock |-> IF rowLock[p] = c THEN NoHolder ELSE rowLock[p]]
    /\ txRow' = [txRow EXCEPT ![c] = NoRow]
    /\ snap' = [snap EXCEPT ![c] = NoRow]

\* return resp, err: the deferred cancel() runs
Return(c, r) ==
    /\ pc' = [pc EXCEPT ![c] = "done"]
    /\ resp' = [resp EXCEPT ![c] = r]
    /\ ctxDone' = [ctxDone EXCEPT ![c] = TRUE]

\* a return of a call that began its transaction on entry and rolls it back
ReturnTxBegun(c, r) ==
    /\ Return(c, r)
    /\ tx' = [tx EXCEPT ![c] = "rolledback"]
    /\ UNCHANGED <<rowLock, txRow, snap>>

\* a return before BeginTx
ReturnNoTx(c, r) ==
    /\ Return(c, r)
    /\ UNCHANGED <<tx, rowLock, txRow, snap>>

\* a return after BeginTx whose deferred function commits: the transaction ends committed
ReturnCommitOnExit(c, r) ==
    /\ Return(c, r)
    /\ tx' = [tx EXCEPT ![c] = "committed"]
    /\ rowLock' = [p \in DOMAIN rowLock |-> IF rowLock[p] = c THEN NoHolder ELSE rowLock[p]]
    /\ UNCHANGED <<txRow, snap>>

\* a return after BeginTx with committed = false
ReturnRollback(c, r) ==
    /\ Return(c, r)
    /\ Rollback(c)

\* a business rejection: return ValidateResponse{IsValid: false, Message: msg}, nil
Rejected(msg) == Response(FALSE, 0, msg, NilErr)

\* an operational failure returned with a nil error
FailedNilErr(msg, err) == Response(FALSE, 0, msg, NilErr)

\* an operational failure: return ValidateResponse{IsValid: false, Message: msg}, err
Failed(msg, err) == Response(FALSE, 0, msg, err)

\* the error of an operation given a done context
CtxErr == <<"context">>
\* the error of a failed database round trip
IoErr == <<"io">>
\* ERROR: could not serialize access due to concurrent update
SerializationFailure == <<"serialization_failure">>
\* ERROR: duplicate key value violates unique constraint
UniqueViolation == <<"unique_violation">>

\* --------------------------------------------------------------- the call
\* the deadline of context.WithTimeout fires, or the caller cancels
Deadline(c) ==
    /\ pc[c] \notin {"off", "done", "crashed"}
    /\ ~ctxDone[c]
    /\ ctxDone' = [ctxDone EXCEPT ![c] = TRUE]
    /\ UNCHANGED <<dbVars, pc, req, now, couponMeta, totalItemsDiscount, totalDiscount,
                   tx, snap, txRow, usageCount, resp, pipeVars, listVars>>

\* 1) Load coupon meta: the cache read
CacheLookup(c) ==
    /\ pc[c] = "lookup"
    /\ IF cache[req[c].CouponCode] # NilMeta
       THEN /\ couponMeta' = [couponMeta EXCEPT ![c] = cache[req[c].CouponCode]]
            /\ pc' = [pc EXCEPT ![c] = "static"]
       ELSE /\ pc' = [pc EXCEPT ![c] = "getmeta"]
            /\ UNCHANGED couponMeta
    /\ UNCHANGED <<dbVars, req, now, ctxDone, totalItemsDiscount, totalDiscount,
                   tx, snap, txRow, usageCount, resp, pipeVars, listVars>>

\* 1) Load coupon meta: the cache missed; CouponRepo.GetCouponMeta
GetCouponMeta(c) ==
    /\ pc[c] = "getmeta"
    /\ \/ /\ ctxDone[c]
          /\ ReturnNoTx(c, Failed("internal_error", CtxErr))
          /\ UNCHANGED <<cache, couponMeta>>
       \/ /\ ~ctxDone[c]
          /\ ReturnNoTx(c, Failed("internal_error", IoErr))
          /\ UNCHANGED <<cache, couponMeta>>
       \/ /\ ~ctxDone[c]
          /\ coupons[req[c].CouponCode] = NilMeta
          /\ ReturnNoTx(c, Rejected("coupon_not_found"))
          /\ UNCHANGED <<cache, couponMeta>>
       \/ /\ ~ctxDone[c]
          /\ coupons[req[c].CouponCode] # NilMeta
          /\ couponMeta' = [couponMeta EXCEPT ![c] = coupons[req[c].CouponCode]]
          /\ pc' = [pc EXCEPT ![c] = "store"]
          /\ UNCHANGED <<cache, resp, ctxDone, tx, rowLock, txRow, snap>>
    /\ UNCHANGED <<coupons, usage, usage0, req, now, totalItemsDiscount, totalDiscount,
                   usageCount, pipeVars, listVars>>

\* a store into a cache of one entry: the entries of the other codes are dropped
CacheStoreEvicting(c) ==
    /\ pc[c] = "store"
    /\ cache' = [code \in DOMAIN cache |->
                   IF code = req[c].CouponCode THEN couponMeta[c] ELSE NilMeta]
    /\ pc' = [pc EXCEPT ![c] = "static"]
    /\ UNCHANGED <<coupons, usage, usage0, rowLock, req, now, ctxDone, couponMeta,
                   totalItemsDiscount, totalDiscount, tx, snap, txRow, usageCount, resp,
                   pipeVars, listVars>>

\* 1) Load coupon meta: store in cache, s.cache[req.CouponCode] = m
CacheStore(c) ==
    /\ pc[c] = "store"
    /\ cache' = [cache EXCEPT ![req[c].CouponCode] = couponMeta[c]]
    /\ pc' = [pc EXCEPT ![c] = "static"]
    /\ UNCHANGED <<coupons, usage, usage0, rowLock, req, now, ctxDone, couponMeta,
                   totalItemsDiscount, totalDiscount, tx, snap, txRow, usageCount, resp,
                   pipeVars, listVars>>

\* two calls are at their accesses of the map s.cache, one of them the write,
\* and nothing orders the two accesses
CacheRace ==
    \E c, d \in Calls :
        c # d /\ pc[c] = "store" /\ pc[d] \in {"lookup", "store"}

\* the Go runtime finds the map written while another goroutine reads or
\* writes it and throws (fatal error: concurrent map writes / concurrent map
\* read and map write): the process ends, every call in it with it, and the
\* database rolls back the transactions of the connections it loses
Crash ==
    /\ CacheRace
    /\ pc' = [c \in Calls |-> IF pc[c] \in {"off", "done"} THEN pc[c] ELSE "crashed"]
    /\ tx' = [c \in Calls |-> IF tx[c] = "open" THEN "rolledback" ELSE tx[c]]
    /\ rowLock' = [p \in DOMAIN rowLock |-> NoHolder]
    /\ txRow' = [c \in Calls |-> NoRow]
    /\ snap' = [c \in Calls |-> NoRow]
    /\ UNCHANGED <<coupons, usage, usage0, cache, req, now, ctxDone, couponMeta,
                   totalItemsDiscount, totalDiscount, usageCount, resp, pipeVars, listVars>>

\* 2) Basic validations
StaticChecks(c) ==
    /\ pc[c] = "static"
    /\ LET r == StaticCheck(couponMeta[c], now[c], req[c].OrderTotal)
       IN  IF r # "ok"
           THEN ReturnNoTx(c, Rejected(r))
           ELSE /\ pc' = [pc EXCEPT ![c] = "eval"]
                /\ UNCHANGED <<resp, ctxDone, tx, rowLock, txRow, snap>>
    /\ UNCHANGED <<coupons, usage, usage0, cache, req, now, couponMeta, totalItemsDiscount,
                   totalDiscount, usageCount, pipeVars, listVars>>

\* the sums the collector can hold when it closes collectDone after its
\* Len(contrib) iterations. The producer feeds the items in cart order to idle
\* workers, the collector receives the result of any worker that holds one,
\* and once the context is done the producer or the collector may skip and a
\* worker may drop its result.
RECURSIVE PoolSums(_, _, _, _, _, _, _)
PoolSums(contrib, workers, isDone, acc, next, flight, k) ==
    IF k = Len(contrib) THEN {acc}
    ELSE UNION (
          {PoolSums(contrib, workers, isDone, FAdd(acc, contrib[i]), next, flight \ {i}, k + 1) :
              i \in flight}
          \cup {PoolSums(contrib, workers, isDone, acc, next + 1, flight \cup {next}, k) :
                  x \in {y \in {1} : next <= Len(contrib) /\ Cardinality(flight) < workers}}
          \cup {PoolSums(contrib, workers, isDone, acc, next, flight, k + 1) :
                  x \in {y \in {1} : isDone}}
          \cup {PoolSums(contrib, workers, isDone, acc, next + 1, flight, k) :
                  x \in {y \in {1} : isDone /\ next <= Len(contrib)}}
          \cup {PoolSums(contrib, workers, isDone, acc, next, flight \ {i}, k) :
                  i \in {y \in flight : isDone}} )

\* the totalItemsDiscount the main goroutine can find after case <-collectDone
Totals(c) ==
    LET contrib == Contributions(couponMeta[c], req[c].CartItems)
    IN  PoolSums(contrib, WorkerCount(Len(contrib)), ctxDone[c], 0, 1, {}, 0)

\* 3) Parallel item applicability checks, in one step: the main select takes
\* collectDone, or ctx.Done() when the context is done
EvalSummary(c) ==
    /\ pc[c] = "eval"
    /\ \/ /\ \E t \in Totals(c) :
                totalItemsDiscount' = [totalItemsDiscount EXCEPT ![c] = t]
          /\ pc' = [pc EXCEPT ![c] = "begin"]
          /\ UNCHANGED <<resp, ctxDone, tx, rowLock, txRow, snap>>
       \/ /\ ctxDone[c]
          /\ ReturnNoTx(c, Failed("timeout_during_item_checks", CtxErr))
          /\ UNCHANGED totalItemsDiscount
    /\ UNCHANGED <<coupons, usage, usage0, cache, req, now, couponMeta, totalDiscount,
                   usageCount, pipeVars, listVars>>

\* the final discount, then 4) s.db.BeginTx(ctx, LevelSerializable)
BeginTx(c) ==
    /\ pc[c] = "begin"
    /\ totalDiscount' = [totalDiscount EXCEPT ![c] =
            Aggregate(couponMeta[c], totalItemsDiscount[c], req[c].OrderTotal)]
    /\ \/ /\ ctxDone[c]
          /\ ReturnNoTx(c, Failed("internal_error", Wrap("begin tx", CtxErr)))
       \/ /\ ~ctxDone[c]
          /\ ReturnNoTx(c, Failed("internal_error", Wrap("begin tx", IoErr)))
       \/ /\ ~ctxDone[c]
          /\ tx' = [tx EXCEPT ![c] = "open"]
          /\ pc' = [pc EXCEPT ![c] = "lock"]
          /\ UNCHANGED <<resp, ctxDone, rowLock, txRow, snap>>
    /\ UNCHANGED <<coupons, usage, usage0, cache, req, now, couponMeta, totalItemsDiscount,
                   usageCount, pipeVars, listVars>>

\* the row read without FOR UPDATE: no row lock is taken
LockRowNoLock(c, count) ==
    /\ UNCHANGED rowLock
    /\ txRow' = [txRow EXCEPT ![c] = count]
    /\ usageCount' = [usageCount EXCEPT ![c] = count]
    /\ pc' = [pc EXCEPT ![c] = "check"]

\* the transaction takes the pair's row lock and reads the row
LockRow(c, count) ==
    /\ rowLock' = [rowLock EXCEPT ![Key(c)] = c]
    /\ txRow' = [txRow EXCEPT ![c] = count]
    /\ usageCount' = [usageCount EXCEPT ![c] = count]
    /\ pc' = [pc EXCEPT ![c] = "check"]

\* GetAndLockUsage: SELECT usage_count ... FOR UPDATE is sent. It is the first
\* statement of the transaction and takes its snapshot. A row the snapshot
\* holds is locked, or waited for when another transaction holds it; a row the
\* snapshot does not hold gives sql.ErrNoRows, and no lock.
SelectForUpdate(c) ==
    /\ pc[c] = "lock"
    /\ \/ /\ ctxDone[c]
          /\ ReturnRollback(c, Failed("internal_error", Wrap("get lock", CtxErr)))
          /\ UNCHANGED usageCount
       \/ /\ ~ctxDone[c]
          /\ ReturnRollback(c, Failed("internal_error", Wrap("get lock", IoErr)))
          /\ UNCHANGED usageCount
       \/ /\ ~ctxDone[c]
          /\ usage[Key(c)] # NoRow
          /\ rowLock[Key(c)] = NoHolder
          /\ LockRow(c, usage[Key(c)])
          /\ snap' = [snap EXCEPT ![c] = usage[Key(c)]]
          /\ UNCHANGED <<resp, ctxDone, tx>>
       \/ /\ ~ctxDone[c]
          /\ usage[Key(c)] # NoRow
          /\ rowLock[Key(c)] # NoHolder
          /\ snap' = [snap EXCEPT ![c] = usage[Key(c)]]
          /\ pc' = [pc EXCEPT ![c] = "lockwait"]
          /\ UNCHANGED <<resp, ctxDone, tx, rowLock, txRow, usageCount>>
       \/ /\ ~ctxDone[c]
          /\ usage[Key(c)] = NoRow
          /\ snap' = [snap EXCEPT ![c] = NoRow]
          /\ pc' = [pc EXCEPT ![c] = "insert"]
          /\ UNCHANGED <<resp, ctxDone, tx, rowLock, txRow, usageCount>>
    /\ UNCHANGED <<coupons, usage, usage0, cache, req, now, couponMeta, totalItemsDiscount,
                   totalDiscount, pipeVars, listVars>>

\* GetAndLockUsage: the SELECT ... FOR UPDATE that waited for the row lock ends.
\* The holder rolled back: the row is locked and read. The holder committed its
\* update: "could not serialize access due to concurrent update". The context
\* became done: the query is cancelled.
LockWaitEnds(c) ==
    /\ pc[c] = "lockwait"
    /\ \/ /\ ctxDone[c]
          /\ ReturnRollback(c, Failed("internal_error", Wrap("get lock", CtxErr)))
          /\ UNCHANGED usageCount
       \/ /\ ~ctxDone[c]
          /\ rowLock[Key(c)] = NoHolder
          /\ usage[Key(c)] # snap[c]
          /\ ReturnRollback(c, Failed("internal_error", Wrap("get lock", SerializationFailure)))
          /\ UNCHANGED usageCount
       \/ /\ ~ctxDone[c]
          /\ rowLock[Key(c)] = NoHolder
          /\ usage[Key(c)] = snap[c]
          /\ LockRow(c, usage[Key(c)])
          /\ UNCHANGED <<resp, ctxDone, tx, snap>>
    /\ UNCHANGED <<coupons, usage, usage0, cache, req, now, couponMeta, totalItemsDiscount,
                   totalDiscount, pipeVars, listVars>>

\* GetAndLockUsage: INSERT INTO coupon_usage ... VALUES ($1, $2, 0, NOW()) is
\* sent. UNIQUE (coupon_id, user_id): a committed row of the pair is a
\* duplicate key; another transaction's uncommitted row of the pair is waited for.
InsertRow(c) ==
    /\ pc[c] = "insert"
    /\ \/ /\ ctxDone[c]
          /\ ReturnRollback(c, Failed("internal_error", Wrap("get lock", CtxErr)))
          /\ UNCHANGED usageCount
       \/ /\ ~ctxDone[c]
          /\ ReturnRollback(c, Failed("internal_error", Wrap("get lock", IoErr)))
          /\ UNCHANGED usageCount
       \/ /\ ~ctxDone[c]
          /\ usage[Key(c)] # NoRow
          /\ ReturnRollback(c, Failed("internal_error", Wrap("get lock", UniqueViolation)))
          /\ UNCHANGED usageCount
       \/ /\ ~ctxDone[c]
          /\ usage[Key(c)] = NoRow
          /\ rowLock[Key(c)] = NoHolder
          /\ LockRow(c, 0)
          /\ UNCHANGED <<resp, ctxDone, tx, snap>>
       \/ /\ ~ctxDone[c]
          /\ usage[Key(c)] = NoRow
          /\ rowLock[Key(c)] # NoHolder
          /\ pc' = [pc EXCEPT ![c] = "insertwait"]
          /\ UNCHANGED <<resp, ctxDone, tx, rowLock, txRow, snap, usageCount>>
    /\ UNCHANGED <<coupons, usage, usage0, cache, req, now, couponMeta, totalItemsDiscount,
                   totalDiscount, pipeVars, listVars>>

\* GetAndLockUsage: the INSERT that waited for another transaction's row ends
InsertWaitEnds(c) ==
    /\ pc[c] = "insertwait"
    /\ \/ /\ ctxDone[c]
          /\ ReturnRollback(c, Failed("internal_error", Wrap("get lock", CtxErr)))
          /\ UNCHANGED usageCount
       \/ /\ ~ctxDone[c]
          /\ rowLock[Key(c)] = NoHolder
          /\ usage[Key(c)] # NoRow
          /\ ReturnRollback(c, Failed("internal_error", Wrap("get lock", UniqueViolation)))
          /\ UNCHANGED usageCount
       \/ /\ ~ctxDone[c]
          /\ rowLock[Key(c)] = NoHolder
          /\ usage[Key(c)] = NoRow
          /\ LockRow(c, 0)
          /\ UNCHANGED <<resp, ctxDone, tx, snap>>
    /\ UNCHANGED <<coupons, usage, usage0, cache, req, now, couponMeta, totalItemsDiscount,
                   totalDiscount, pipeVars, listVars>>

\* Check user-based usage constraints
CheckUsage(c) ==
    /\ pc[c] = "check"
    /\ LET r == UsageCheck(couponMeta[c], usageCount[c])
       IN  IF r # "ok"
           THEN ReturnRollback(c, Rejected(r))
           ELSE /\ pc' = [pc EXCEPT ![c] = "incr"]
                /\ UNCHANGED <<resp, ctxDone, tx, rowLock, txRow, snap>>
    /\ UNCHANGED <<coupons, usage, usage0, cache, req, now, couponMeta, totalItemsDiscount,
                   totalDiscount, usageCount, pipeVars, listVars>>

\* the row after UPDATE coupon_usage SET usage_count = usage_count + 1
Incremented(count) == count + 1

\* IncrementUsage, inside the transaction
IncrementUsage(c) ==
    /\ pc[c] = "incr"
    /\ \/ /\ ctxDone[c]
          /\ ReturnRollback(c, Failed("internal_error", Wrap("increment usage", CtxErr)))
       \/ /\ ~ctxDone[c]
          /\ ReturnRollback(c, Failed("internal_error", Wrap("increment usage", IoErr)))
       \/ /\ ~ctxDone[c]
          /\ txRow' = [txRow EXCEPT ![c] = Incremented(txRow[c])]
          /\ pc' = [pc EXCEPT ![c] = "commit"]
          /\ UNCHANGED <<resp, ctxDone, tx, rowLock, snap>>
    /\ UNCHANGED <<coupons, usage, usage0, cache, req, now, couponMeta, totalItemsDiscount,
                   totalDiscount, usageCount, pipeVars, listVars>>

\* a tx.Commit() that does not look at the context: the transaction commits
\* after the deadline
CommitAfterDeadline(c) ==
    /\ pc[c] = "commit"
    /\ \/ /\ ~ctxDone[c]
          /\ ReturnRollback(c, Failed("internal_error", Wrap("tx commit", IoErr)))
          /\ UNCHANGED usage
       \/ /\ usage' = [usage EXCEPT ![Key(c)] = txRow[c]]
          /\ rowLock' = [rowLock EXCEPT ![Key(c)] = NoHolder]
          /\ tx' = [tx EXCEPT ![c] = "committed"]
          /\ Return(c, Response(TRUE, totalDiscount[c], "coupon_applied", NilErr))
          /\ UNCHANGED <<txRow, snap>>
    /\ UNCHANGED <<coupons, usage0, cache, req, now, couponMeta, totalItemsDiscount,
                   totalDiscount, usageCount, pipeVars, listVars>>

\* tx.Commit() and the final response. A transaction whose context is done
\* does not commit (database/sql has rolled it back).
Commit(c) ==
    /\ pc[c] = "commit"
    /\ \/ /\ ctxDone[c]
          /\ ReturnRollback(c, Failed("internal_error", Wrap("tx commit", CtxErr)))
          /\ UNCHANGED usage
       \/ /\ ~ctxDone[c]
          /\ ReturnRollback(c, Failed("internal_error", Wrap("tx commit", IoErr)))
          /\ UNCHANGED usage
       \/ /\ ~ctxDone[c]
          /\ usage' = [usage EXCEPT ![Key(c)] = txRow[c]]
          /\ rowLock' = [rowLock EXCEPT ![Key(c)] = NoHolder]
          /\ tx' = [tx EXCEPT ![c] = "committed"]
          /\ Return(c, Response(TRUE, totalDiscount[c], "coupon_applied", NilErr))
          /\ UNCHANGED <<txRow, snap>>
    /\ UNCHANGED <<coupons, usage0, cache, req, now, couponMeta, totalItemsDiscount,
                   totalDiscount, usageCount, pipeVars, listVars>>

\* ------------------------------------------------- Spec: concurrent calls
P10 == Meta("P10", 2, "multi_use", 0, NilTime, NilTime, "percentage", 10, 1, "inventory", {}, {})
ONCE == Meta("ONCE", 2, "one_time", 0, NilTime, NilTime, "flat", 5, 2, "charges", {}, {})
TWICE == Meta("TWICE", 2, "multi_use", 0, NilTime, NilTime, "flat", 5, 2, "inventory", {}, {})

Codes == {"P10", "ONCE", "TWICE", "GONE"}
Pairs == Codes \X Users

\* the coupons table of Spec; no coupon has the code "GONE"
Catalog == [code \in Codes |->
              CASE code = "P10" -> P10
                [] code = "ONCE" -> ONCE
                [] code = "TWICE" -> TWICE
                [] OTHER -> NilMeta]

\* the (coupon, user) pairs the calls of Spec ask for
ConcKeys == <<<<"P10", "u1">>, <<"P10", "u2">>, <<"ONCE", "u1">>, <<"TWICE", "u1">>,
              <<"GONE", "u1">>>>

\* the cart of the calls of Spec
Cart1 == <<CartItem("m1", "catA", 2, 1)>>

\* the row of a coupon the listing has not come to
NotScanned == [result |-> "", usageCount |-> 0]

InitCommon ==
    /\ rowLock = [p \in Pairs |-> NoHolder]
    /\ cache = [code \in Codes |-> NilMeta]
    /\ ctxDone = [c \in Calls |-> FALSE]
    /\ couponMeta = [c \in Calls |-> NilMeta]
    /\ totalItemsDiscount = [c \in Calls |-> 0]
    /\ totalDiscount = [c \in Calls |-> 0]
    /\ tx = [c \in Calls |-> "none"]
    /\ snap = [c \in Calls |-> NoRow]
    /\ txRow = [c \in Calls |-> NoRow]
    /\ usageCount = [c \in Calls |-> 0]
    /\ resp = [c \in Calls |-> NoResp]
    /\ prodIdx = 0
    /\ inClosed = FALSE
    /\ wpc = [w \in Workers |-> "off"]
    /\ wval = [w \in Workers |-> 0]
    /\ collIdx = 0
    /\ collectDone = FALSE
    /\ applicable = {}
    /\ scanned = [code \in Codes |-> NotScanned]

Init ==
    /\ InitCommon
    /\ coupons = Catalog
    \* an earlier call has used TWICE once for user u1; no other pair has been used
    /\ usage = [p \in Pairs |-> IF p = <<"TWICE", "u1">> THEN 1 ELSE NoRow]
    /\ usage0 = usage
    /\ pc = [c \in Calls |-> "lookup"]
    /\ \E k \in [Calls -> 1..Len(ConcKeys)] :
          \* calls are interchangeable: one order of each multiset of requests
          /\ \A c \in Calls : c + 1 \in Calls => k[c] <= k[c + 1]
          /\ req = [c \in Calls |-> Request(ConcKeys[k[c]][2], ConcKeys[k[c]][1], Cart1, 2)]
    /\ now \in [Calls -> {2}]

Step(c) ==
    \/ Deadline(c)
    \/ CacheLookup(c)
    \/ GetCouponMeta(c)
    \/ CacheStore(c)
    \/ StaticChecks(c)
    \/ EvalSummary(c)
    \/ BeginTx(c)
    \/ SelectForUpdate(c)
    \/ LockWaitEnds(c)
    \/ InsertRow(c)
    \/ InsertWaitEnds(c)
    \/ CheckUsage(c)
    \/ IncrementUsage(c)
    \/ Commit(c)

Next == (\E c \in Calls : Step(c)) \/ Crash

Spec == Init /\ [][Next]_vars

\* ------------------------------------ SpecOne: the discount worker pool
\* the goroutines of the call's discount evaluation have been started
Spawned == wpc[1] # "off"

\* 3) inCh, outCh are made; the workers, the producer and the collector are started
SpawnEval(c) ==
    /\ pc[c] = "eval"
    /\ pc' = [pc EXCEPT ![c] = "wait"]
    /\ wpc' = [w \in Workers |->
                 IF w <= WorkerCount(Len(req[c].CartItems)) THEN "recv" ELSE "off"]
    /\ totalItemsDiscount' = [totalItemsDiscount EXCEPT ![c] = 0]
    /\ UNCHANGED <<dbVars, listVars, req, now, ctxDone, couponMeta, totalDiscount, tx, snap, txRow,
                   usageCount, resp, prodIdx, inClosed, wval, collIdx, collectDone>>

\* producer: case inCh <- itemIn{it}, met by worker w's receive of range inCh;
\* the worker computes the item's discount
ProducerSend(c, w) ==
    /\ wpc[w] = "recv"
    /\ ~inClosed
    /\ prodIdx < Len(req[c].CartItems)
    /\ wval' = [wval EXCEPT ![w] = ItemDiscount(couponMeta[c], req[c].CartItems[prodIdx + 1])]
    /\ wpc' = [wpc EXCEPT ![w] = "send"]
    /\ prodIdx' = prodIdx + 1
    /\ UNCHANGED <<dbVars, listVars, callVars, inClosed, collIdx, collectDone>>

\* producer: case <-ctx.Done(): break leaves the select; the loop goes on to the next item
ProducerSkip(c) ==
    /\ Spawned
    /\ ~inClosed
    /\ prodIdx < Len(req[c].CartItems)
    /\ ctxDone[c]
    /\ prodIdx' = prodIdx + 1
    /\ UNCHANGED <<dbVars, listVars, callVars, inClosed, wpc, wval, collIdx, collectDone>>

\* a producer that ends without close(inCh)
ProducerCloseMissing(c) ==
    /\ Spawned
    /\ ~inClosed
    /\ prodIdx = Len(req[c].CartItems)
    /\ UNCHANGED vars

\* producer: close(inCh) after the loop
ProducerClose(c) ==
    /\ Spawned
    /\ ~inClosed
    /\ prodIdx = Len(req[c].CartItems)
    /\ inClosed' = TRUE
    /\ UNCHANGED <<dbVars, listVars, callVars, prodIdx, wpc, wval, collIdx, collectDone>>

\* worker: range inCh ends, inCh is closed
WorkerExit(w) ==
    /\ wpc[w] = "recv"
    /\ inClosed
    /\ wpc' = [wpc EXCEPT ![w] = "done"]
    /\ UNCHANGED <<dbVars, listVars, callVars, prodIdx, inClosed, wval, collIdx, collectDone>>

\* worker: case outCh <- itemOut{discount}, met by the collector's case o := <-outCh
WorkerSend(c, w) ==
    /\ wpc[w] = "send"
    /\ ~collectDone
    /\ collIdx < Len(req[c].CartItems)
    /\ totalItemsDiscount' = [totalItemsDiscount EXCEPT ![c] = FAdd(@, wval[w])]
    /\ collIdx' = collIdx + 1
    /\ wpc' = [wpc EXCEPT ![w] = "recv"]
    /\ UNCHANGED <<dbVars, listVars, pc, req, now, ctxDone, couponMeta, totalDiscount, tx, snap,
                   txRow, usageCount, resp, prodIdx, inClosed, wval, collectDone>>

\* a worker that sends on outCh without a ctx.Done() case stays blocked
WorkerAbortNoCase(c, w) ==
    /\ wpc[w] = "send"
    /\ ctxDone[c]
    /\ UNCHANGED vars

\* worker: case <-ctx.Done(): return
WorkerAbort(c, w) ==
    /\ wpc[w] = "send"
    /\ ctxDone[c]
    /\ wpc' = [wpc EXCEPT ![w] = "done"]
    /\ UNCHANGED <<dbVars, listVars, callVars, prodIdx, inClosed, wval, collIdx, collectDone>>

\* a collector whose select has a default case: an iteration can pass without a result
CollectorSkipDefault(c) ==
    /\ Spawned
    /\ ~collectDone
    /\ collIdx < Len(req[c].CartItems)
    /\ collIdx' = collIdx + 1
    /\ UNCHANGED <<dbVars, listVars, callVars, prodIdx, inClosed, wpc, wval, collectDone>>

\* collector: case <-ctx.Done(): break leaves the select; the loop goes on
CollectorSkip(c) ==
    /\ Spawned
    /\ ~collectDone
    /\ collIdx < Len(req[c].CartItems)
    /\ ctxDone[c]
    /\ collIdx' = collIdx + 1
    /\ UNCHANGED <<dbVars, listVars, callVars, prodIdx, inClosed, wpc, wval, collectDone>>

\* collector: close(collectDone) after the loop
CollectorClose(c) ==
    /\ Spawned
    /\ ~collectDone
    /\ collIdx = Len(req[c].CartItems)
    /\ collectDone' = TRUE
    /\ UNCHANGED <<dbVars, listVars, callVars, prodIdx, inClosed, wpc, wval, collIdx>>

\* Wait until collectors finished or context done
WaitEval(c) ==
    /\ pc[c] = "wait"
    /\ \/ /\ collectDone
          /\ pc' = [pc EXCEPT ![c] = "begin"]
          /\ UNCHANGED <<resp, ctxDone, tx, rowLock, txRow, snap>>
       \/ /\ ctxDone[c]
          /\ ReturnNoTx(c, Failed("timeout_during_item_checks", CtxErr))
    /\ UNCHANGED <<coupons, usage, usage0, cache, req, now, couponMeta, totalItemsDiscount,
                   totalDiscount, usageCount, pipeVars, listVars>>

\* the steps of one goroutine of the call
ProducerStep(c) == (\E w \in Workers : ProducerSend(c, w)) \/ ProducerSkip(c) \/ ProducerClose(c)
CollectorStep(c) == (\E w \in Workers : WorkerSend(c, w)) \/ CollectorSkip(c) \/ CollectorClose(c)
WorkerStep(c, w) == ProducerSend(c, w) \/ WorkerSend(c, w) \/ WorkerAbort(c, w) \/ WorkerExit(w)
MainStep(c) ==
    \/ CacheLookup(c) \/ GetCouponMeta(c) \/ CacheStore(c) \/ StaticChecks(c)
    \/ SpawnEval(c) \/ WaitEval(c)
    \/ BeginTx(c) \/ SelectForUpdate(c) \/ InsertRow(c) \/ CheckUsage(c)
    \/ IncrementUsage(c) \/ Commit(c)

\* the cart items of SpecOne
ItemPool == <<CartItem("m1", "catA", 2, 1), CartItem("m2", "catB", 1, 2)>>
\* the carts of SpecOne: of every length up to MaxCart, the two items taking turns
Carts == {[i \in 1..n |-> ItemPool[2 - (i % 2)]] : n \in 0..MaxCart}
MaybeTimes == Times \cup {NilTime}

\* one coupon, its temporal fields and the instant drawn
InitStatic ==
    /\ \E e \in Times, mo \in {0, 2, 3}, f \in MaybeTimes, t \in MaybeTimes :
          coupons = [code \in Codes |->
                       IF code = "P10"
                       THEN Meta("P10", e, "multi_use", mo, f, t, "percentage", 10, 1,
                                 "inventory", {}, {})
                       ELSE NilMeta]
    /\ now \in [Calls -> Times]
    /\ \A c \in Calls : now[c] = now[1]
    /\ req = [c \in Calls |-> Request("u1", "P10", Cart1, 2)]
    /\ usage = [p \in Pairs |-> NoRow]

\* one coupon, its discount fields and applicability sets, the cart and the code drawn
InitEval ==
    /\ \E dt \in {"percentage", "flat"}, tt \in {"inventory", "charges"},
          items \in {{}, {"m1"}}, cats \in {{}, {"catB"}} :
          coupons = [code \in Codes |->
                       IF code = "P10"
                       THEN Meta("P10", MaxNow, "multi_use", 0, NilTime, NilTime, dt, 10, 1,
                                 tt, items, cats)
                       ELSE NilMeta]
    /\ now = [c \in Calls |-> 0]
    /\ \E cart \in Carts, code \in {"P10", "GONE"} :
          req = [c \in Calls |-> Request("u1", code, cart, 5)]
    /\ usage = [p \in Pairs |-> NoRow]

\* one coupon, its usage fields and the pair's committed usage count drawn
InitUsage ==
    /\ \E ut \in {"one_time", "multi_use", "time_based"}, mu \in 0..2 :
          /\ coupons = [code \in Codes |->
                          IF code = "P10"
                          THEN Meta("P10", MaxNow, ut, 0, NilTime, NilTime, "percentage", 10, mu,
                                    "inventory", {}, {})
                          ELSE NilMeta]
          /\ \E n \in {NoRow, 1, 2} :
                \* a count the code can have committed
                /\ ut = "one_time" => n <= 1
                /\ mu > 0 => n <= mu
                /\ usage = [p \in Pairs |-> IF p = <<"P10", "u1">> THEN n ELSE NoRow]
    /\ now = [c \in Calls |-> 0]
    /\ req = [c \in Calls |-> Request("u1", "P10", Cart1, 2)]

\* a cart of three items whose contributions to a 10 percent coupon are 0.1, 0.2 and 0.4
SumItems == <<CartItem("m1", "catA", 1, 1), CartItem("m2", "catA", 2, 1),
              CartItem("m3", "catA", 4, 1)>>

\* one cart whose contributions do not add up to the same float64 in every order
InitSum ==
    /\ coupons = [code \in Codes |->
                    IF code = "P10"
                    THEN Meta("P10", MaxNow, "multi_use", 0, NilTime, NilTime, "percentage", 10, 1,
                              "inventory", {}, {})
                    ELSE NilMeta]
    /\ now = [c \in Calls |-> 0]
    /\ req = [c \in Calls |-> Request("u1", "P10", SumItems, 7)]
    /\ usage = [p \in Pairs |-> NoRow]

InitOne ==
    /\ InitCommon
    /\ pc = [c \in Calls |-> IF c = 1 THEN "lookup" ELSE "off"]
    /\ (InitStatic \/ InitEval \/ InitUsage \/ InitSum)
    /\ usage0 = usage

NextOne ==
    \/ Deadline(1)
    \/ MainStep(1)
    \/ \E w \in Workers : ProducerSend(1, w)
    \/ ProducerSkip(1)
    \/ ProducerClose(1)
    \/ \E w \in Workers : WorkerExit(w)
    \/ \E w \in Workers : WorkerSend(1, w)
    \/ \E w \in Workers : WorkerAbort(1, w)
    \/ CollectorSkip(1)
    \/ CollectorClose(1)

SpecOne == InitOne /\ [][NextOne]_vars

\* the Go scheduler runs every goroutine that can take a step
FairSpecOne ==
    /\ SpecOne
    /\ WF_vars(MainStep(1))
    /\ WF_vars(ProducerStep(1))
    /\ WF_vars(CollectorStep(1))
    /\ \A w \in Workers : WF_vars(WorkerStep(1, w))

\* the calls that reach the worker pool with a cart of any size: one coupon with
\* its discount fields drawn, or the three-item cart
InitPool ==
    /\ InitCommon
    /\ pc = [c \in Calls |-> IF c = 1 THEN "lookup" ELSE "off"]
    /\ (InitEval \/ InitSum)
    /\ usage0 = usage

SpecPool == InitPool /\ [][NextOne]_vars

\* SpecPool with the Go scheduler's fairness
FairSpecPool ==
    /\ SpecPool
    /\ WF_vars(MainStep(1))
    /\ WF_vars(ProducerStep(1))
    /\ WF_vars(CollectorStep(1))
    /\ \A w \in Workers : WF_vars(WorkerStep(1, w))

\* ------------------------------- SpecList: the listing next to a validation
\* GetApplicableCoupons, basic checks of one coupon row: the first that skips the row, or "ok"
ListingBasicChecks(m, t, orderTotal) ==
    IF m.ExpiryDate < t THEN "expired"
    ELSE IF m.MinOrderValue > orderTotal THEN "min_order"
    ELSE IF /\ m.ValidFrom # NilTime
            /\ m.ValidTo # NilTime
            /\ (t < m.ValidFrom \/ t > m.ValidTo)
         THEN "window"
    ELSE "ok"

\* GetApplicableCoupons, the checks on the usage count read: the one that skips
\* the row, or "ok". max_usage_per_user is written by CreateCoupon from an int
\* and is never NULL: maxUsage.Valid holds.
ListingUsageChecks(m, count) ==
    IF count >= m.MaxUsagePerUser THEN "max_usage"
    ELSE IF m.UsageType = "one_time" /\ count >= 1 THEN "one_time"
    ELSE "ok"

\* GetApplicableCoupons: some cart item matches the coupon's rules, or the coupon has none
ListingApplies(m, cart) ==
    \/ (m.ApplicableItems = {} /\ m.ApplicableCategories = {})
    \/ \E i \in 1..Len(cart) :
          cart[i].ID \in m.ApplicableItems \/ cart[i].Category \in m.ApplicableCategories

\* the iteration of the row ends here
Scanned(code, result, count) ==
    /\ scanned' = [scanned EXCEPT ![code] = [result |-> result, usageCount |-> count]]
    /\ applicable' = IF result = "listed" THEN applicable \cup {code} ELSE applicable

\* GetApplicableCoupons: one iteration of for rows.Next(), for the user, the
\* order total, the cart and the timestamp of call 1's request
RowsNext(code) ==
    /\ coupons[code] # NilMeta
    /\ scanned[code] = NotScanned
    /\ LET m == coupons[code]
           row == usage[<<code, req[1].UserID>>]
           count == IF row = NoRow THEN 0 ELSE row
           basic == ListingBasicChecks(m, now[1], req[1].OrderTotal)
           byUsage == ListingUsageChecks(m, count)
       IN  \/ basic # "ok" /\ Scanned(code, basic, 0)
           \/ basic = "ok" /\ Scanned(code, "usage_error", 0)
           \/ basic = "ok" /\ byUsage # "ok" /\ Scanned(code, byUsage, count)
           \/ basic = "ok" /\ byUsage = "ok" /\ Scanned(code, "no_meta", count)
           \/ /\ basic = "ok" /\ byUsage = "ok"
              /\ Scanned(code, IF ListingApplies(m, req[1].CartItems) THEN "listed" ELSE "no_item",
                         count)
    /\ UNCHANGED <<dbVars, callVars, pipeVars>>

\* one coupon with its usage fields and the pair's usage count drawn; one
\* validation call and one listing request for the same user, cart and instant
InitList ==
    /\ InitCommon
    /\ pc = [c \in Calls |-> IF c = 1 THEN "lookup" ELSE "off"]
    /\ InitUsage
    /\ usage0 = usage

NextList ==
    \/ NextOne
    \/ \E code \in Codes : RowsNext(code)

SpecList == InitList /\ [][NextList]_vars

\* ------------------------------------------------------------------ claims
\* the usage count a row stands for: a pair without a row has used nothing
Count(n) == IF n = NoRow THEN 0 ELSE n
\* the calls made for a pair
CallsFor(p) == {c \in Calls : pc[c] # "off" /\ req[c].CouponCode = p[1] /\ req[c].UserID = p[2]}
Accepted(c) == pc[c] = "done" /\ resp[c].IsValid
RejectedWith(c, msg) == pc[c] = "done" /\ resp[c] = Rejected(msg)
AcceptedFor(p) == {c \in CallsFor(p) : Accepted(c)}
SameKey(c, d) == req[c].CouponCode = req[d].CouponCode /\ req[c].UserID = req[d].UserID
BusinessMessages == {"coupon_not_found", "coupon_expired", "min_order_value_not_met",
                     "not_in_valid_window", "coupon_already_used", "usage_limit_reached"}
OperationalMessages == {"internal_error", "timeout_during_item_checks"}
\* call c returns in this step
Returns(c) == pc[c] # "done" /\ pc'[c] = "done"

\* C1: for a coupon with maxUsagePerUser = k > 0 the calls of one (coupon, user)
\* pair that return IsValid=true, the earlier uses of the pair included, are at
\* most k in every interleaving, and at most 1 when usageType = one_time
C1_UsageBound ==
    \A p \in Pairs :
        coupons[p[1]] # NilMeta =>
            LET m == coupons[p[1]]
                uses == Count(usage0[p]) + Cardinality(AcceptedFor(p))
            IN  /\ m.MaxUsagePerUser > 0 => uses <= m.MaxUsagePerUser
                /\ m.UsageType = "one_time" => uses <= 1

\* two calls of one pair on the coupon with maxUsagePerUser = 1 have returned, one of them accepted
C1_Witness ==
    \E c, d \in Calls :
        /\ c # d /\ SameKey(c, d) /\ req[c].CouponCode = "P10"
        /\ Accepted(c) /\ pc[d] = "done" /\ ~resp[d].IsValid
        /\ resp[d].Message = "usage_limit_reached"

\* C2: N concurrent calls of one pair with maxUsagePerUser = 1, all passing the
\* static checks, none hitting the deadline (nor an I/O failure), the pair unused
\* before, end with exactly one call accepted and every other call rejected with
\* coupon_already_used or usage_limit_reached
C2_ExactlyOneAccepted ==
    \A p \in Pairs :
        ( /\ coupons[p[1]] # NilMeta
          /\ coupons[p[1]].MaxUsagePerUser = 1
          /\ usage0[p] = NoRow
          /\ CallsFor(p) # {}
          /\ \A c \in CallsFor(p) : pc[c] = "done" /\ (resp[c].Err # NilErr => Cause(resp[c].Err) \notin {"context", "io"}) )
        => /\ Cardinality(AcceptedFor(p)) = 1
           /\ \A c \in CallsFor(p) \ AcceptedFor(p) :
                 resp[c].Message \in {"coupon_already_used", "usage_limit_reached"}

\* C3: the committed usageCount of a pair changes only by +1, in the step in
\* which exactly one call of the pair returns IsValid=true, and every call that
\* returns IsValid=true makes such a step
C3_CountSteps ==
    \/ (usage' = usage /\ \A c \in Calls : ~(Returns(c) /\ resp'[c].IsValid))
    \/ \A p \in Pairs :
          LET returned == {c \in CallsFor(p) : Returns(c) /\ resp'[c].IsValid}
          IN  /\ Count(usage'[p]) = Count(usage[p]) + Cardinality(returned)
              /\ Cardinality(returned) <= 1

\* C3: with no call of the pair in flight the committed usageCount is the number
\* of accepted calls of the pair (the earlier uses included); it never exceeds
\* maxUsagePerUser when that is positive, nor 1 when usageType = one_time
C3_CountState ==
    \A p \in Pairs :
        /\ (\A c \in CallsFor(p) : pc[c] = "done")
             => Count(usage[p]) = Count(usage0[p]) + Cardinality(AcceptedFor(p))
        /\ coupons[p[1]] # NilMeta =>
             /\ coupons[p[1]].MaxUsagePerUser > 0 => Count(usage[p]) <= coupons[p[1]].MaxUsagePerUser
             /\ coupons[p[1]].UsageType = "one_time" => Count(usage[p]) <= 1

\* C3: the committed usageCount is non-decreasing, steps by exactly +1 per
\* accepted call, equals the number of accepted calls when none is in flight,
\* and stays within maxUsagePerUser (when positive) and within 1 (one_time)
C3_UsageCount == [](C3_CountState) /\ [][C3_CountSteps]_vars

\* of two calls of the pair used once before, on the coupon with maxUsagePerUser = 2,
\* one was accepted and one rejected: the count went from 1 to 2
C3_Witness ==
    \E c, d \in Calls :
        /\ c # d /\ SameKey(c, d) /\ req[c].CouponCode = "TWICE"
        /\ Accepted(c) /\ RejectedWith(d, "usage_limit_reached")
        /\ usage0[Key(c)] = 1 /\ usage[Key(c)] = 2

\* C4: a call that returns anything but acceptance has its transaction rolled
\* back (when it began one) and holds no row; the committed usage table changes
\* in no step other than the return of an accepted call, so such a call leaves
\* every usageCount as it was and leaves no usage record behind
C4_RollbackOnExit ==
    [][ /\ \A c \in Calls :
              (Returns(c) /\ ~resp'[c].IsValid) =>
                  /\ usage' = usage
                  /\ tx'[c] \in {"none", "rolledback"}
                  /\ tx[c] = "open" => tx'[c] = "rolledback"
                  /\ \A p \in Pairs : rowLock'[p] # c
        /\ usage' # usage => \E c \in Calls : Returns(c) /\ resp'[c].IsValid ]_vars

\* a call that created the pair's usage record and incremented it failed to commit: the record is gone
C4_Witness ==
    \E c \in Calls :
        /\ pc[c] = "done" /\ resp[c].Message = "internal_error"
        /\ resp[c].Err = Wrap("tx commit", IoErr)
        /\ tx[c] = "rolledback" /\ usageCount[c] = 0
        /\ usage[Key(c)] = NoRow /\ rowLock[Key(c)] = NoHolder
        /\ \A d \in Calls : d # c => pc[d] = "lookup"

\* C5: a returned call is exactly one of accepted (IsValid, coupon_applied, nil
\* error), business rejection (not valid, nil error, a business message) and
\* operational failure (not valid, non-nil error, an operational message)
C5_OneOutcome ==
    \A c \in Calls :
        pc[c] = "done" =>
            LET r == resp[c]
                accepted == r.IsValid /\ r.Message = "coupon_applied" /\ r.Err = NilErr
                business == ~r.IsValid /\ r.Message \in BusinessMessages /\ r.Err = NilErr
                operational == ~r.IsValid /\ r.Message \in OperationalMessages /\ r.Err # NilErr
            IN  /\ accepted \/ business \/ operational
                /\ ~(accepted /\ business) /\ ~(accepted /\ operational)
                /\ ~(business /\ operational)

\* the call returned timeout_during_item_checks with the context's error
C5_Witness ==
    /\ pc[1] = "done"
    /\ resp[1].Message = "timeout_during_item_checks"
    /\ resp[1].Err = CtxErr

\* C6: the accepted commits of a pair are ordered and the call making the Nth
\* got N-1 from GetAndLockUsage; a call whose GetAndLockUsage waited for another
\* transaction of the pair goes on, once that transaction has ended, with the
\* count that transaction left
C6_SerialOrder ==
    [][ \A c \in Calls :
          /\ (Returns(c) /\ resp'[c].IsValid) => usageCount[c] = Count(usage[Key(c)])
          /\ (pc[c] \in {"lockwait", "insertwait"} /\ pc'[c] # pc[c] /\ ~ctxDone[c])
                => /\ pc'[c] = "check"
                   /\ usageCount'[c] = Count(usage[Key(c)]) ]_vars

GoroutinesEnded ==
    /\ inClosed
    /\ collectDone
    /\ \A w \in Workers : wpc[w] \in {"off", "done"}

\* C8: once the context is done with the discount evaluation started, the
\* producer, the collector and every worker eventually end; none stays blocked
\* on inCh or outCh
C8_NoLeak == (Spawned /\ ctxDone[1]) ~> GoroutinesEnded

\* the context became done in mid evaluation: the call still waits, a worker
\* is blocked sending its result and the producer has items left to feed
C8_Witness ==
    /\ pc[1] = "wait" /\ ctxDone[1]
    /\ ~inClosed /\ prodIdx < Len(req[1].CartItems)
    /\ \E w \in Workers : wpc[w] = "send"

\* the call has its coupon and is past the static checks
PastStatic(c) == couponMeta[c] # NilMeta /\ pc[c] \notin {"off", "lookup", "getmeta", "store", "static", "crashed"}
StaticMessages == {"coupon_expired", "min_order_value_not_met", "not_in_valid_window"}
\* the call went on to the discount evaluation
WentOn(c) == pc[c] = "done" => resp[c].Message \notin StaticMessages \cup {"coupon_not_found"}

\* C9: after the lookup the call is rejected with coupon_expired if now >
\* expiryDate; else with min_order_value_not_met if minOrderValue > orderTotal;
\* else with not_in_valid_window if validFrom and validTo are both set and now
\* is outside [validFrom, validTo]; else (also when only one of them is set) it
\* goes on to the discount evaluation
C9_StaticOrder ==
    \A c \in Calls :
        PastStatic(c) =>
            LET m == couponMeta[c]
                t == now[c]
                expired == t > m.ExpiryDate
                below == m.MinOrderValue > req[c].OrderTotal
                outside == /\ m.ValidFrom # NilTime /\ m.ValidTo # NilTime
                           /\ ~(m.ValidFrom <= t /\ t <= m.ValidTo)
            IN  /\ expired => RejectedWith(c, "coupon_expired")
                /\ (~expired /\ below) => RejectedWith(c, "min_order_value_not_met")
                /\ (~expired /\ ~below /\ outside) => RejectedWith(c, "not_in_valid_window")
                /\ (~expired /\ ~below /\ ~outside) => WentOn(c)

\* an order below the minimum placed outside the window is rejected for the minimum
C9_Witness ==
    /\ RejectedWith(1, "min_order_value_not_met")
    /\ couponMeta[1].ValidFrom # NilTime /\ couponMeta[1].ValidTo # NilTime
    /\ now[1] > couponMeta[1].ValidTo

\* a call placed before validFrom of a coupon without validTo went on to the evaluation
C9_WitnessOneBound ==
    /\ PastStatic(1) /\ pc[1] = "wait"
    /\ couponMeta[1].ValidFrom # NilTime /\ couponMeta[1].ValidTo = NilTime
    /\ now[1] < couponMeta[1].ValidFrom

\* C10 as stated: a call at now = expiryDate is rejected with coupon_expired
C10_ExpiredAtBoundary ==
    \A c \in Calls :
        (PastStatic(c) /\ now[c] = couponMeta[c].ExpiryDate) => RejectedWith(c, "coupon_expired")

\* C10, amended: a call at now = expiryDate is not rejected with coupon_expired
\* (the boundary instant is still valid); it is from the next instant on
C10_ValidAtBoundary ==
    \A c \in Calls :
        PastStatic(c) =>
            /\ now[c] = couponMeta[c].ExpiryDate
                 => ~(pc[c] = "done" /\ resp[c].Message = "coupon_expired")
            /\ now[c] > couponMeta[c].ExpiryDate => RejectedWith(c, "coupon_expired")

\* a call at now = expiryDate was accepted
C10_Witness ==
    /\ Accepted(1)
    /\ now[1] = couponMeta[1].ExpiryDate

\* the call passed the expiry and the minimum-order checks and its coupon has both window bounds
AtWindowCheck(c) ==
    /\ PastStatic(c)
    /\ now[c] <= couponMeta[c].ExpiryDate
    /\ couponMeta[c].MinOrderValue <= req[c].OrderTotal
    /\ couponMeta[c].ValidFrom # NilTime /\ couponMeta[c].ValidTo # NilTime

\* C11: with validFrom = T0 <= validTo = T1 both set and the expiry and
\* minimum-order checks passed, a call at now = T0 and a call at now = T1 pass
\* the window check and go on; a call at now < T0 or now > T1 is rejected with
\* not_in_valid_window
C11_WindowInclusive ==
    \A c \in Calls :
        AtWindowCheck(c) =>
            LET t == now[c]
                T0 == couponMeta[c].ValidFrom
                T1 == couponMeta[c].ValidTo
            IN  /\ (T0 <= T1 /\ (t = T0 \/ t = T1))
                    => (WentOn(c) /\ ~RejectedWith(c, "not_in_valid_window"))
                /\ (t < T0 \/ t > T1) => RejectedWith(c, "not_in_valid_window")

\* a call at now = validTo, after validFrom, is in the discount evaluation
C11_Witness ==
    /\ AtWindowCheck(1) /\ pc[1] = "wait"
    /\ couponMeta[1].ValidFrom < couponMeta[1].ValidTo
    /\ now[1] = couponMeta[1].ValidTo

\* the item applies to the coupon: both applicability sets empty, or its ID in
\* the item set, or its category in the category set
RefApplies(m, it) ==
    \/ (m.ApplicableItems = {} /\ m.ApplicableCategories = {})
    \/ it.ID \in m.ApplicableItems
    \/ it.Category \in m.ApplicableCategories

\* the contribution of one item, in hundredths: quantity * unitPrice * discountValue / 100
\* for an applying item of an inventory percentage coupon, else 0
RefContribution(m, it) ==
    IF RefApplies(m, it) /\ m.TargetType = "inventory" /\ m.DiscountType = "percentage"
    THEN FMul(FMul(it.Qty, it.Price), m.DiscountValue)
    ELSE 0

\* the sequential reference: the contributions added one by one in cart order
RECURSIVE RefSequential(_, _, _)
RefSequential(m, cart, acc) ==
    IF cart = << >> THEN acc
    ELSE RefSequential(m, Tail(cart), FAdd(acc, RefContribution(m, Head(cart))))

\* the sums of the contributions of the items S of the cart, added in any order
RECURSIVE RefAnyOrder(_, _, _, _)
RefAnyOrder(m, cart, S, acc) ==
    IF S = {} THEN {acc}
    ELSE UNION {RefAnyOrder(m, cart, S \ {i}, FAdd(acc, RefContribution(m, cart[i]))) : i \in S}

\* C12: the discount of an accepted response is the sum of the per-item
\* contributions (inventory, percentage); discountValue once (inventory, flat);
\* orderTotal * discountValue / 100 (charges, percentage); discountValue
\* (charges, flat). Amounts in hundredths, products and sums as float64 gives them.
C12_Aggregation ==
    \A c \in Calls :
        Accepted(c) =>
            LET m == couponMeta[c]
                d == resp[c].Discount
            IN  /\ (m.TargetType = "inventory" /\ m.DiscountType = "percentage")
                      => d \in RefAnyOrder(m, req[c].CartItems, 1..Len(req[c].CartItems), 0)
                /\ (m.TargetType = "inventory" /\ m.DiscountType = "flat")
                      => d = m.DiscountValue * 100
                /\ (m.TargetType = "charges" /\ m.DiscountType = "percentage")
                      => d = FMul(req[c].OrderTotal, m.DiscountValue)
                /\ (m.TargetType = "charges" /\ m.DiscountType = "flat")
                      => d = m.DiscountValue * 100

\* a flat charges coupon was accepted on a cart of two items, one of them applying: the discount is discountValue
C12_Witness ==
    /\ Accepted(1)
    /\ couponMeta[1].TargetType = "charges" /\ couponMeta[1].DiscountType = "flat"
    /\ Len(req[1].CartItems) = 2
    /\ couponMeta[1].ApplicableItems = {"m1"} /\ couponMeta[1].ApplicableCategories = {}
    /\ resp[1].Discount = couponMeta[1].DiscountValue * 100

\* call c leaves position p in this step
Leaves(c, p) == pc[c] = p /\ pc'[c] \notin {p, "crashed"}
\* call c returns internal_error in this step
FailsNow(c) == pc'[c] = "done" /\ resp'[c].Message = "internal_error" /\ resp'[c].Err # NilErr

\* C13: with n the count GetAndLockUsage returned, the call is rejected with
\* coupon_already_used if usageType = one_time and n >= 1; otherwise with
\* usage_limit_reached if maxUsagePerUser > 0 and n >= maxUsagePerUser;
\* otherwise IncrementUsage runs and then the commit, which accepts the call
\* with the pair's count at n + 1 (unless one of the two fails)
C13_UsageOrder ==
    [][ \A c \in Calls :
          LET m == couponMeta[c]
              n == usageCount[c]
          IN  /\ Leaves(c, "check") =>
                    IF m.UsageType = "one_time" /\ n >= 1
                    THEN pc'[c] = "done" /\ resp'[c] = Rejected("coupon_already_used")
                    ELSE IF m.MaxUsagePerUser > 0 /\ n >= m.MaxUsagePerUser
                    THEN pc'[c] = "done" /\ resp'[c] = Rejected("usage_limit_reached")
                    ELSE pc'[c] = "incr"
              /\ Leaves(c, "incr") => (pc'[c] = "commit" \/ FailsNow(c))
              /\ Leaves(c, "commit") =>
                    \/ FailsNow(c)
                    \/ /\ pc'[c] = "done" /\ resp'[c].IsValid
                       /\ usage'[Key(c)] = n + 1 ]_vars

\* a one_time coupon with maxUsagePerUser = 1 used once reported coupon_already_used
C13_Witness ==
    /\ RejectedWith(1, "coupon_already_used")
    /\ couponMeta[1].UsageType = "one_time" /\ couponMeta[1].MaxUsagePerUser = 1
    /\ usageCount[1] = 1 /\ tx[1] = "rolledback"

\* a cart item's result has not reached the collector: the producer has not
\* fed the item yet, or a worker still holds its result
Uncollected ==
    \/ (~inClosed /\ prodIdx < Len(req[1].CartItems))
    \/ \E w \in Workers : wpc[w] = "send"

\* C14: when the context is done before the discount evaluation has collected
\* every item's result, the call leaves its wait for the evaluation only by
\* returning timeout_during_item_checks with a non-nil error, no transaction begun
C14_TimeoutDuringEval ==
    [][ (pc[1] = "wait" /\ ctxDone[1] /\ Uncollected /\ pc'[1] # "wait")
          => /\ pc'[1] = "done"
             /\ resp'[1].Message = "timeout_during_item_checks"
             /\ resp'[1].Err # NilErr
             /\ tx'[1] = "none" ]_vars

\* C15: in no interleaving of concurrent calls does a write of the shared cache
\* s.cache happen together with another call's read or write of it, and no
\* call is ended by the runtime for such an access
C15_CacheSafe ==
    /\ ~CacheRace
    /\ \A c \in Calls : pc[c] # "crashed"

\* the discount of an accepted call, by the coupon's target and type, the
\* item contributions added in cart order
RefDiscount(m, cart, orderTotal) ==
    IF m.TargetType = "charges"
    THEN IF m.DiscountType = "percentage" THEN FMul(orderTotal, m.DiscountValue)
         ELSE m.DiscountValue * 100
    ELSE IF m.DiscountType = "flat" THEN m.DiscountValue * 100
         ELSE RefSequential(m, cart, 0)

\* what a call that runs alone returns, as a function of its request, the
\* coupon record, the pair's usage count and now
RefOutcome(r, m, n, t) ==
    IF m = NilMeta THEN Rejected("coupon_not_found")
    ELSE IF t > m.ExpiryDate THEN Rejected("coupon_expired")
    ELSE IF m.MinOrderValue > r.OrderTotal THEN Rejected("min_order_value_not_met")
    ELSE IF /\ m.ValidFrom # NilTime /\ m.ValidTo # NilTime
            /\ ~(m.ValidFrom <= t /\ t <= m.ValidTo)
         THEN Rejected("not_in_valid_window")
    ELSE IF m.UsageType = "one_time" /\ n >= 1 THEN Rejected("coupon_already_used")
    ELSE IF m.MaxUsagePerUser > 0 /\ n >= m.MaxUsagePerUser THEN Rejected("usage_limit_reached")
    ELSE Response(TRUE, RefDiscount(m, r.CartItems, r.OrderTotal), "coupon_applied", NilErr)

\* C16: a call that runs alone and ends without an error (the deadline did not
\* fire, no database round trip failed) returns the IsValid, message and
\* discount, and leaves the usage state, that its request, the database state
\* and now determine, whatever the scheduling of the discount workers
C16_Deterministic ==
    (pc[1] = "done" /\ resp[1].Err = NilErr) =>
        LET out == RefOutcome(req[1], coupons[req[1].CouponCode], Count(usage0[Key(1)]), now[1])
        IN  /\ resp[1] = out
            /\ \A p \in Pairs :
                  Count(usage[p]) = Count(usage0[p]) + (IF out.IsValid /\ p = Key(1) THEN 1 ELSE 0)

\* C18: when the deadline does not fire, the total the worker pool hands to
\* the aggregation equals the sequential reference (the contributions of the
\* applying items added in cart order, each once) in every worker scheduling,
\* and the accumulator changes only in a receive of the collector
C18_PoolTotal ==
    /\ [](pc[1] = "begin" /\ ~ctxDone[1]
            => totalItemsDiscount[1] = RefSequential(couponMeta[1], req[1].CartItems, 0))
    /\ [][totalItemsDiscount'[1] # totalItemsDiscount[1]
            => (~collectDone /\ collIdx' = collIdx + 1)]_vars

\* C17: a call on a coupon with maxUsagePerUser = 0 and usageType other than
\* one_time is never rejected with usage_limit_reached or coupon_already_used,
\* whatever the pair's usageCount
C17_ZeroUnlimited ==
    \A c \in Calls :
        (couponMeta[c] # NilMeta /\ couponMeta[c].MaxUsagePerUser = 0
            /\ couponMeta[c].UsageType # "one_time")
        => (pc[c] = "done" =>
                resp[c].Message \notin {"usage_limit_reached", "coupon_already_used"})

\* a pair that had used a coupon with maxUsagePerUser = 0 twice was accepted a third time
C17_Witness ==
    /\ Accepted(1)
    /\ couponMeta[1].MaxUsagePerUser = 0 /\ couponMeta[1].UsageType # "one_time"
    /\ usage0[Key(1)] = 2 /\ usage[Key(1)] = 3

\* the workers the call started
Started == {w \in Workers : wpc[w] # "off"}
Min(a, b) == IF a < b THEN a ELSE b
Max(a, b) == IF a > b THEN a ELSE b

\* C19: the call starts min(4, max(1, len(cartItems))) workers for every cart
\* size, 1 for the empty cart
C19_WorkerCount ==
    Spawned => Cardinality(Started) = Min(FixedCap, Max(1, Len(req[1].CartItems)))

\* the place of a position in the order MetaLookup, StaticChecks,
\* ConcurrentDiscountEval, AggregationPolicy, UsageConsume
StepOf(p) ==
    CASE p \in {"off", "lookup", "getmeta", "store"} -> 1
      [] p = "static" -> 2
      [] p \in {"eval", "wait"} -> 3
      [] p = "begin" -> 4
      [] p \in {"lock", "lockwait", "insert", "insertwait", "check", "incr", "commit"} -> 5
      [] OTHER -> 6

\* C20: a call moves through MetaLookup, StaticChecks, ConcurrentDiscountEval,
\* AggregationPolicy and UsageConsume in that order, never back; workers start
\* only in ConcurrentDiscountEval and the transaction begins only after the
\* aggregation; a call that ends with coupon_not_found, a static rejection or
\* timeout_during_item_checks has begun no transaction and touched no usage
\* record, and one that ends with coupon_not_found or a static rejection has
\* started no worker
C20_StepOrder ==
    /\ [](\A c \in {1} :
            /\ (pc[c] = "done" /\ resp[c].Message \in
                      StaticMessages \cup {"coupon_not_found", "timeout_during_item_checks"})
                  => (tx[c] = "none" /\ usage = usage0 /\ \A p \in Pairs : rowLock[p] # c)
            /\ (pc[c] = "done" /\ resp[c].Message \in StaticMessages \cup {"coupon_not_found"})
                  => ~Spawned
            /\ StepOf(pc[c]) < 3 => ~Spawned
            /\ StepOf(pc[c]) < 5 => tx[c] = "none")
    /\ [][\A c \in {1} :
            /\ StepOf(pc'[c]) >= StepOf(pc[c])
            /\ (StepOf(pc'[c]) > StepOf(pc[c]) /\ pc'[c] # "done")
                  => StepOf(pc'[c]) = StepOf(pc[c]) + 1]_vars

\* the call returned timeout_during_item_checks with its workers started and no transaction
C20_Witness ==
    /\ pc[1] = "done" /\ resp[1].Message = "timeout_during_item_checks"
    /\ Spawned /\ tx[1] = "none" /\ usage = usage0

\* the positions of a call between BeginTx and its return
InTx == {"lock", "lockwait", "insert", "insertwait", "check", "incr", "commit"}

\* C21: the state of the transactions. GetAndLockUsage and IncrementUsage run
\* with the call's transaction open, a row is held only by an open transaction
\* for its own pair, and a returned call has no open transaction and no row:
\* its transaction is committed exactly when it returned IsValid=true
C21_TxState ==
    \A c \in Calls :
        /\ pc[c] \in InTx => tx[c] = "open"
        /\ tx[c] = "open" => pc[c] \in InTx
        /\ \A p \in Pairs : rowLock[p] = c => (tx[c] = "open" /\ p = Key(c))
        /\ pc[c] = "done" =>
              /\ tx[c] \in {"none", "committed", "rolledback"}
              /\ tx[c] = "committed" <=> resp[c].IsValid
              /\ \A p \in Pairs : rowLock[p] # c

\* C21: the steps of the transactions. A call begins a transaction only at
\* BeginTx and only once; the transaction ends only with the call (its return,
\* or the end of the process), committed when the call returns IsValid=true and
\* rolled back on every other exit
C21_TxSteps ==
    \A c \in Calls :
        /\ tx'[c] # tx[c] =>
              \/ tx[c] = "none" /\ tx'[c] = "open" /\ pc[c] = "begin" /\ pc'[c] = "lock"
              \/ tx[c] = "open" /\ tx'[c] = "committed" /\ Returns(c) /\ resp'[c].IsValid
              \/ /\ tx[c] = "open" /\ tx'[c] = "rolledback"
                 /\ (Returns(c) /\ ~resp'[c].IsValid) \/ pc'[c] = "crashed"
        /\ (Returns(c) /\ tx[c] = "open") =>
              IF resp'[c].IsValid THEN tx'[c] = "committed" ELSE tx'[c] = "rolledback"
        /\ (Returns(c) /\ tx[c] # "open") => (tx'[c] = "none" /\ ~resp'[c].IsValid)

\* C21: each call begins at most one transaction, runs GetAndLockUsage and
\* IncrementUsage inside it and has ended it when it returns: committed exactly
\* when the call returns IsValid=true, rolled back on every other exit taken
\* after BeginTx succeeded; no transaction and no row lock outlives the call
C21_TxLifecycle == [](C21_TxState) /\ [][C21_TxSteps]_vars

\* of two calls of one pair one committed and was accepted and the other, whose
\* IncrementUsage failed, rolled back; neither holds a row
C21_Witness ==
    \E c, d \in Calls :
        /\ c # d /\ SameKey(c, d)
        /\ Accepted(c) /\ tx[c] = "committed"
        /\ pc[d] = "done" /\ resp[d].Err = Wrap("increment usage", IoErr)
        /\ tx[d] = "rolledback"
        /\ \A p \in Pairs : rowLock[p] = NoHolder

\* the context of call c became done with the call still running
Expired(c) == ctxDone[c] /\ pc[c] \notin {"off", "done", "crashed"}
\* call c waits for a row that another call's transaction holds
WaitsForRow(c) == pc[c] \in {"lockwait", "insertwait"}

\* C22: a call whose context is done need not wait any further for the row: its
\* return is enabled while the other call still holds the row
C22_NoFurtherWait ==
    \A c \in Calls :
        (Expired(c) /\ WaitsForRow(c)) =>
            ENABLED ((LockWaitEnds(c) \/ InsertWaitEnds(c)) /\ pc'[c] = "done")

\* C22: a step of a call whose context is done commits nothing and does not
\* accept the call; the call leaves its wait for the row only by returning the
\* operational failure of GetAndLockUsage, its transaction rolled back
C22_ExpiredSteps ==
    \A c \in Calls :
        (Expired(c) /\ pc'[c] # pc[c]) =>
            /\ usage' = usage
            /\ tx'[c] # "committed"
            /\ Returns(c) => ~resp'[c].IsValid
            /\ (WaitsForRow(c) /\ pc'[c] # "crashed") =>
                  /\ Returns(c)
                  /\ resp'[c] = Failed("internal_error", Wrap("get lock", CtxErr))
                  /\ tx'[c] = "rolledback"

FullSums(c) == RefAnyOrder(couponMeta[c], req[c].CartItems, 1..Len(req[c].CartItems), 0)

\* C23: an accepted response never carries a partial item total: the discount
\* of an accepted inventory percentage coupon is the sum of the contributions
\* of all cart items. A call that left its wait with an incomplete sum (the
\* collector skipped on ctx.Done() and closed collectDone) has a done context,
\* and no call is in its transaction with an incomplete sum.
C23_NoPartialTotal ==
    /\ (Accepted(1) /\ couponMeta[1].TargetType = "inventory"
            /\ couponMeta[1].DiscountType = "percentage")
          => (resp[1].Discount \in FullSums(1) /\ collIdx = Len(req[1].CartItems))
    /\ (pc[1] = "begin" /\ totalItemsDiscount[1] \notin FullSums(1)) => ctxDone[1]
    /\ pc[1] \in InTx => totalItemsDiscount[1] \in FullSums(1)

\* the collector closed collectDone with an incomplete sum, the main select
\* took the collectDone branch and BeginTx refused the done context
C23_Witness ==
    /\ pc[1] = "done" /\ collectDone
    /\ totalItemsDiscount[1] \notin FullSums(1)
    /\ resp[1] = Failed("internal_error", Wrap("begin tx", CtxErr))
    /\ tx[1] = "none" /\ usage = usage0

\* the workers that hold a result they have not handed to the collector
Sending == {w \in Workers : wpc[w] = "send"}

\* the pipeline ran to its end: the producer fed every item and closed inCh,
\* the collector received a result for every item and closed collectDone, and
\* every worker left its loop
PipelineDone ==
    /\ prodIdx = Len(req[1].CartItems) /\ inClosed
    /\ collIdx = Len(req[1].CartItems) /\ collectDone
    /\ totalItemsDiscount[1] \in FullSums(1)
    /\ \A w \in Workers : wpc[w] \in {"off", "done"}

\* C24: while the context is not done, every item the producer has sent is
\* with exactly one worker or has been received once by the collector, and
\* collectDone is closed only after len(cartItems) results
C24_Counts ==
    (Spawned /\ ~ctxDone[1]) =>
        /\ prodIdx = collIdx + Cardinality(Sending)
        /\ prodIdx <= Len(req[1].CartItems)
        /\ inClosed => prodIdx = Len(req[1].CartItems)
        /\ collectDone => collIdx = Len(req[1].CartItems)

C24_WitnessEmpty ==
    /\ pc[1] = "wait" /\ ~ctxDone[1]
    /\ Len(req[1].CartItems) = 0
    /\ Cardinality(Started) = FixedCap
    /\ PipelineDone

\* the coupon of call c has a non-empty applicability set and no item of the
\* cart (an empty cart included) is in it
NoItemMatches(c) ==
    /\ couponMeta[c].ApplicableItems # {} \/ couponMeta[c].ApplicableCategories # {}
    /\ \A i \in 1..Len(req[c].CartItems) :
          /\ req[c].CartItems[i].ID \notin couponMeta[c].ApplicableItems
          /\ req[c].CartItems[i].Category \notin couponMeta[c].ApplicableCategories

\* the static and usage checks of call c pass
PassesChecks(c) ==
    RefOutcome(req[c], couponMeta[c], Count(usage0[Key(c)]), now[c]).IsValid

\* C25: item applicability never gates acceptance: a call on an inventory
\* coupon with a non-empty applicability set and a cart in which no item
\* matches (or an empty cart) that passes the static and usage checks, and ends
\* without an operational failure, is accepted with coupon_applied, discount 0
\* (percentage) or discountValue (flat), and the pair's usageCount is one higher
C25_NoApplicabilityGate ==
    \A c \in {1} :
        ( /\ pc[c] = "done" /\ resp[c].Err = NilErr
          /\ couponMeta[c] # NilMeta /\ couponMeta[c].TargetType = "inventory"
          /\ NoItemMatches(c) /\ PassesChecks(c) )
        => /\ resp[c] = Response(TRUE,
                            IF couponMeta[c].DiscountType = "percentage" THEN 0
                            ELSE couponMeta[c].DiscountValue * 100,
                            "coupon_applied", NilErr)
           /\ tx[c] = "committed"
           /\ usage[Key(c)] = Count(usage0[Key(c)]) + 1

\* a percentage coupon for category catB was accepted on a cart of one item of
\* another category: discount 0, one use consumed
C25_Witness ==
    /\ Accepted(1) /\ NoItemMatches(1)
    /\ Len(req[1].CartItems) = 1
    /\ couponMeta[1].TargetType = "inventory" /\ couponMeta[1].DiscountType = "percentage"
    /\ resp[1].Discount = 0 /\ resp[1].Message = "coupon_applied"
    /\ usage0[Key(1)] = NoRow /\ usage[Key(1)] = 1

\* a flat coupon for item m1 was accepted on the empty cart with discountValue
C25_WitnessEmptyFlat ==
    /\ Accepted(1) /\ NoItemMatches(1)
    /\ req[1].CartItems = << >>
    /\ couponMeta[1].TargetType = "inventory" /\ couponMeta[1].DiscountType = "flat"
    /\ resp[1].Discount = couponMeta[1].DiscountValue * 100
    /\ usage[Key(1)] = 1

\* C26: the state of the cache: an entry is the coupon the provider holds
\* under that code; a code without a coupon has no entry
C26_CacheState ==
    \A code \in Codes :
        cache[code] # NilMeta => (coupons[code] # NilMeta /\ cache[code] = coupons[code])

\* C26: the steps of the cache. An entry, once stored, stays as it is. The
\* cache changes only in the store of a call whose lookup returned a
\* CouponMeta, under the call's coupon code. A call that finds an entry takes
\* it and goes on to the static checks, without GetCouponMeta; a call that
\* finds none calls GetCouponMeta. A lookup that returns not-found or an error
\* ends the call (coupon_not_found with a nil error, internal_error with a
\* non-nil error) and stores nothing.
C26_CacheSteps ==
    /\ \A code \in Codes : cache[code] # NilMeta => cache'[code] = cache[code]
    /\ cache' # cache =>
          \E c \in Calls :
              /\ pc[c] = "store" /\ pc'[c] = "static"
              /\ couponMeta[c] # NilMeta
              /\ cache' = [cache EXCEPT ![req[c].CouponCode] = couponMeta[c]]
    /\ \A c \in Calls :
          /\ Leaves(c, "lookup") =>
                IF cache[req[c].CouponCode] # NilMeta
                THEN pc'[c] = "static" /\ couponMeta'[c] = cache[req[c].CouponCode]
                ELSE pc'[c] = "getmeta"
          /\ Leaves(c, "getmeta") =>
                \/ /\ pc'[c] = "store" /\ couponMeta'[c] = coupons[req[c].CouponCode]
                   /\ couponMeta'[c] # NilMeta
                \/ /\ pc'[c] = "done" /\ cache' = cache
                   /\ \/ /\ resp'[c] = Rejected("coupon_not_found")
                         /\ coupons[req[c].CouponCode] = NilMeta
                      \/ /\ resp'[c].Message = "internal_error" /\ resp'[c].Err # NilErr

\* C26: the metadata cache only grows and holds only found coupons; a stored
\* entry serves every later call for its code without GetCouponMeta and is
\* never modified; not-found and errors store nothing, so the next call for
\* the code asks the provider again
C26_CacheGrowth == [](C26_CacheState) /\ [][C26_CacheSteps]_vars

\* a later call for a code took the entry an earlier call had stored and went
\* on to its static checks
C26_Witness ==
    \E c, d \in Calls :
        /\ c # d /\ req[c].CouponCode = req[d].CouponCode
        /\ pc[c] = "done" /\ resp[c].Message # "coupon_not_found"
        /\ cache[req[d].CouponCode] # NilMeta
        /\ pc[d] = "static" /\ couponMeta[d] = cache[req[d].CouponCode]

\* after a call for a code without a coupon returned coupon_not_found, the
\* next call for the code found no entry and asks the provider again
C26_WitnessNotFound ==
    \E c, d \in Calls :
        /\ c # d /\ req[c].CouponCode = req[d].CouponCode
        /\ RejectedWith(c, "coupon_not_found")
        /\ cache[req[d].CouponCode] = NilMeta
        /\ pc[d] = "getmeta"

\* the listing came to the usage checks of the coupon's row and read the
\* usageCount that call 1 read for the pair
SameInputs(code) ==
    /\ scanned[code].result \notin {"", "expired", "min_order", "window", "usage_error"}
    /\ pc[1] = "done" /\ req[1].CouponCode = code
    /\ resp[1].Err = NilErr
    /\ resp[1].Message \notin StaticMessages \cup {"coupon_not_found"}
    /\ scanned[code].usageCount = usageCount[1]

\* C27: for the same coupon, user, usageCount and now, GetApplicableCoupons
\* skips the coupon for usage reasons exactly when ValidateCoupon rejects it
\* with coupon_already_used or usage_limit_reached, a coupon with
\* maxUsagePerUser = 0 included
C27_SameUsageGate ==
    \A code \in Codes :
        SameInputs(code) =>
            (scanned[code].result \in {"max_usage", "one_time"}
                <=> resp[1].Message \in {"coupon_already_used", "usage_limit_reached"})

====
